---- MODULE Spec2Model ----
(***************************************************************************)
(* create-ao-app: the worker supervisor (AOSProcessManager) and the        *)
(* bounded-retry scheduler (Schedule).                                     *)
(*                                                                         *)
(* The repository carries two revisions of process-manager.ts that the     *)
(* CLI is built against:                                                   *)
(*   "instance" - src/src/process-manager.ts: the worker handle lives in   *)
(*                memory, evaluateProcess awaits the eval subprocess;      *)
(*   "record"   - src/unnamed/part_002 lines 163-512: the worker identity  *)
(*                is persisted in ~/.ao-processes.json, evaluateProcess    *)
(*                returns as soon as the subprocess is spawned.            *)
(* The Schedule class is the same text in both.  The variable `revision`   *)
(* fixes, for a whole behaviour, which of the two is linked.               *)
(*                                                                         *)
(* Around them: the argument vector startAOProcess builds, the one-shot    *)
(* commands (evaluate, monitor, watch, list), the dev-server-then-worker   *)
(* sequence startDevWithAO with its readiness wait, findLuaFiles and       *)
(* matchPattern, an `ao:stop` overlapping `ao:start`, and the commands of   *)
(* index.ts with their exit codes.  Each part has its own specification    *)
(* over the same variables: SchedulerSpec, Spec, ArgsSpec, CommandSpec,    *)
(* DevSpec, FindSpec, MatchSpec, RaceSpec, CliSpec.                        *)
(***************************************************************************)
EXTENDS Integers, Sequences, FiniteSets, TLC

\* ---------------------------------------------------------------- bounds
MaxTicks == 5        \* timer callbacks fired over a behaviour
MaxInFlight == 2     \* tick evaluations awaiting their subprocess at once
MaxWorkers == 2      \* workers spawned by one CLI invocation
MaxOption == 3       \* largest maxRetries option a caller passes

\* ------------------------------------------------------- program constants
DefaultMaxRetries == 3     \* maxRetries: options.maxRetries || 3
Null == -1                 \* process: ChildProcess | null = null
NoPid == 0                 \* pid: process.pid || 0
PriorPid == 1              \* pid of a worker left by an earlier invocation

Revisions == {"instance", "record"}

\* what the operating system does with one subprocess of `aos eval`
EvalOutcomes == {"exit0", "exitNonZero", "spawnError", "spawnThrow"}
\* what the operating system does with spawn('aos', args) of the worker
SpawnOutcomes == {"ok", "enoent", "throw"}

NoValue == ""               \* an option or config entry left undefined
DefaultProcessName == "ao-process"   \* config.processName || 'ao-process'

Absent == [kind |-> "absent", pid |-> NoPid, name |-> NoValue]
Corrupt == [kind |-> "corrupt", pid |-> NoPid, name |-> NoValue]
ProcessInfo(p, n) == [kind |-> "record", pid |-> p, name |-> n]

\* ------------------------------------------------- launch options, config
MaxLuaFiles == 2     \* entries of config.luaFiles
LuaFileNames == {"a.lua", "b.lua"}
SeqsUpTo(S, n) == UNION {[1 .. k -> S] : k \in 0 .. n}

\* AOProcessOptions as startAOProcess reads it
AOProcessOptions(names, values, switches) ==
  [name : names, wallet : values, data : values, tagName : values,
   tagValue : values, module : values, cron : values, monitor : switches,
   sqlite : switches, gatewayUrl : values, cuUrl : values, muUrl : values]
\* the `options = {}` default of the parameter
NoOptions ==
  [name |-> NoValue, wallet |-> NoValue, data |-> NoValue,
   tagName |-> NoValue, tagValue |-> NoValue, module |-> NoValue,
   cron |-> NoValue, monitor |-> FALSE, sqlite |-> FALSE,
   gatewayUrl |-> NoValue, cuUrl |-> NoValue, muUrl |-> NoValue]
\* AOConfig as startAOProcess reads it
AOConfig(names, files, crons) ==
  [processName : names, luaFiles : files, cronInterval : crons,
   tags : {<<<<"Environment", "development">>>>}]
DEFAULT_CONFIG ==
  [processName |-> DefaultProcessName, luaFiles |-> << >>,
   cronInterval |-> NoValue, tags |-> <<<<"Environment", "development">>>>]

\* what a caller of the supervisor varies between starts
SupervisorOptions == AOProcessOptions({NoValue, "p1"}, {NoValue}, {FALSE})
SupervisorConfigs ==
  AOConfig({NoValue, "cfg"}, {<< >>, <<"a.lua">>}, {NoValue})
\* every launch option, each set or not, over every list of Lua files
LaunchOptions == AOProcessOptions({NoValue, "p1"}, {NoValue, "v"}, BOOLEAN)
LaunchConfigs ==
  AOConfig({NoValue, "cfg"}, SeqsUpTo(LuaFileNames, MaxLuaFiles), {NoValue})

\* ------------------------------------------------------- argument vector
\* args.push(flag, value) under `if (value)`
Flag(flag, value) == IF value # NoValue THEN <<flag, value>> ELSE << >>
\* args.push(flag) under `if (on)`
Switch(flag, on) == IF on THEN <<flag>> ELSE << >>

\* LoadArgs that passes the files last to first
RECURSIVE LoadArgsReversed(_)
LoadArgsReversed(files) ==
  IF files = << >> THEN << >>
  ELSE LoadArgsReversed(Tail(files)) \o <<"--load", Head(files)>>

\* for (const file of config.luaFiles) args.push('--load', file)
RECURSIVE LoadArgs(_)
LoadArgs(files) ==
  IF files = << >> THEN << >>
  ELSE <<"--load", Head(files)>> \o LoadArgs(Tail(files))

\* Object.entries(config.tags).forEach(... '--tag-name', n, '--tag-value', v)
RECURSIVE TagArgs(_)
TagArgs(tags) ==
  IF tags = << >> THEN << >>
  ELSE <<"--tag-name", Head(tags)[1], "--tag-value", Head(tags)[2]>>
         \o TagArgs(Tail(tags))

\* instance revision: the argument vector handed to spawn
buildArgsInstance(config) ==
  <<IF config.processName # NoValue THEN config.processName
    ELSE DefaultProcessName>>
    \o LoadArgs(config.luaFiles)
    \o Flag("--cron", config.cronInterval)
    \o TagArgs(config.tags)

\* buildArgsRecord with the worker invocation shape
\* `[name] [--load <file>]* [--wallet <path>] ...`
buildArgsRecordLoadFirst(options, config) ==
  LET name == IF options.name # NoValue THEN options.name
              ELSE config.processName
  IN (IF name # NoValue THEN <<name>> ELSE << >>)
       \o LoadArgs(config.luaFiles)
       \o Flag("--wallet", options.wallet)
       \o Flag("--data", options.data)
       \o (IF options.tagName # NoValue /\ options.tagValue # NoValue
             THEN <<"--tag-name", options.tagName,
                    "--tag-value", options.tagValue>>
             ELSE << >>)
       \o Flag("--module", options.module)
       \o Flag("--cron", options.cron)
       \o Switch("--monitor", options.monitor)
       \o Switch("--sqlite", options.sqlite)
       \o Flag("--gateway-url", options.gatewayUrl)
       \o Flag("--cu-url", options.cuUrl)
       \o Flag("--mu-url", options.muUrl)

\* record revision: the argument vector handed to spawn
buildArgsRecord(options, config) ==
  LET name == IF options.name # NoValue THEN options.name
              ELSE config.processName
  IN (IF name # NoValue THEN <<name>> ELSE << >>)
       \o Flag("--wallet", options.wallet)
       \o LoadArgs(config.luaFiles)
       \o Flag("--data", options.data)
       \o (IF options.tagName # NoValue /\ options.tagValue # NoValue
             THEN <<"--tag-name", options.tagName,
                    "--tag-value", options.tagValue>>
             ELSE << >>)
       \o Flag("--module", options.module)
       \o Flag("--cron", options.cron)
       \o Switch("--monitor", options.monitor)
       \o Switch("--sqlite", options.sqlite)
       \o Flag("--gateway-url", options.gatewayUrl)
       \o Flag("--cu-url", options.cuUrl)
       \o Flag("--mu-url", options.muUrl)

VARIABLES
  revision,        \* which process-manager.ts is linked
  maxRetries,      \* Schedule.options.maxRetries
  timer,           \* Schedule.timer !== null
  liveTimers,      \* intervals registered with the event loop, not cleared
  retryCount,      \* Schedule.retryCount
  inflight,        \* tick callbacks suspended in `await evaluateProcess(tick)`
  errInflight,     \* callbacks suspended in `await evaluateProcess(onError)`
  onErrorCalls,    \* evaluateProcess(options.onError) invocations
  handlerFailures, \* 'Error handler failed:' log lines
  trail,           \* what each completed tick evaluation did, oldest first
  starts,          \* successful Schedule.start() calls, saturating at 2
  call,            \* the last API call and what its caller saw
  process,         \* AOSProcessManager.process (Null, or the child's pid)
  processName,     \* AOSProcessManager.processName !== null
  processFile,     \* contents of ~/.ao-processes.json
  alive,           \* pids of live worker processes
  nextPid,         \* pid the operating system hands out next
  signalled,       \* pids a termination signal was delivered to
  writes,          \* completed saveProcessInfo() writes of the record file
  launch,          \* options and config of the last startAOProcess call
  argv,            \* argument vector of the last spawn('aos', args) of a worker
  command,         \* the last one-shot command called: [op, await]
  child,           \* the subprocess that command spawned: [state, fate]
  promise,         \* the promise that command returned to its caller
  overdue,         \* the eval timeout elapsed with the subprocess running
  seq,             \* where startDevWithAO stands
  gate,            \* the serverReady() promise
  devServer,       \* the development server process
  chunks,          \* stdout chunks the development server has written
  timerFired,      \* the 2-minute readiness timer has fired
  reported,        \* the failure startDevWithAO or startDevServer reported
  tree,            \* the directory tree findLuaFiles is pointed at
  scan,            \* "done" once findLuaFiles has returned
  files,           \* what findLuaFiles returned
  patterns,        \* the patterns handed to matchPattern
  message,         \* the message handed to matchPattern
  matched,         \* what matchPattern returned, "none" before the call
  cli,             \* the CLI command run last
  race,            \* where two overlapping CLI invocations stand
  crashed          \* the CLI died of an uncaught exception

cliVars == <<cli, race>>
schedVars == <<timer, liveTimers, retryCount, inflight, errInflight,
               onErrorCalls, handlerFailures, trail, starts>>
mgrVars == <<process, processName, processFile, alive, nextPid, signalled,
             writes>>
argVars == <<launch, argv>>
cmdVars == <<command, child, promise, overdue>>
findVars == <<tree, scan, files>>
matchVars == <<patterns, message, matched>>
pureVars == <<findVars, matchVars>>
toolVars == <<cmdVars, pureVars>>
devVars == <<seq, gate, devServer, chunks, timerFired, reported>>
\* what the scheduler and stopProcess never touch
otherVars == <<devVars, toolVars, argVars>>
vars == <<cliVars, revision, maxRetries, schedVars, call, mgrVars, argVars, toolVars,
          devVars, crashed>>

\* no one-shot command has been called, nothing was spawned for one
\* no command has been run; no invocation is under way
NoCli == [n |-> 0, cmd |-> "none", phase |-> "none", code |-> 0,
          error |-> FALSE, stderr |-> FALSE]
NoRace == [stop |-> "idle", info |-> Absent, start |-> "idle",
           worker |-> NoPid]
NoCommand == [op |-> "none", await |-> FALSE]
NoChild == [state |-> "none", fate |-> "exit0"]

Min(a, b) == IF a < b THEN a ELSE b

Called(op, res) == [op |-> op, res |-> res, flip |-> 1 - call.flip]

\* ------------------------------------------------------------ constructors
\* Schedule constructor: maxRetries: options.maxRetries || 3
ScheduleOptions(opt) == IF opt = 0 THEN DefaultMaxRetries ELSE opt

\* a CLI invocation right after `new AOSProcessManager()` and `new Schedule`:
\* nothing is in memory; in the record revision the file and the worker of
\* an earlier invocation may still be there
Fresh ==
  /\ revision \in Revisions
  /\ \E opt \in 0 .. MaxOption : maxRetries = ScheduleOptions(opt)
  /\ timer = FALSE
  /\ liveTimers = 0
  /\ retryCount = 0
  /\ inflight = 0
  /\ errInflight = 0
  /\ onErrorCalls = 0
  /\ handlerFailures = 0
  /\ trail = << >>
  /\ starts = 0
  /\ call = [op |-> "new", res |-> "ok", flip |-> 0]
  /\ nextPid = PriorPid + 1
  /\ signalled = {}
  /\ writes = 0
  /\ launch = [options |-> NoOptions, config |-> DEFAULT_CONFIG]
  /\ command = NoCommand
  /\ child = NoChild
  /\ promise = "none"
  /\ overdue = FALSE
  /\ seq = "idle"
  /\ gate = "none"
  /\ devServer = "none"
  /\ chunks = << >>
  /\ timerFired = FALSE
  /\ reported = "none"
  /\ cli = NoCli
  /\ race = NoRace
  /\ crashed = FALSE

\* findLuaFiles and matchPattern have not been called
FindIdle == tree = {} /\ scan = "idle" /\ files = << >>
MatchIdle == patterns = << >> /\ message = << >> /\ matched = "none"

\* the supervisor on its own
Init ==
  /\ Fresh
  /\ FindIdle
  /\ MatchIdle
  /\ process = Null
  /\ processName = FALSE
  /\ IF revision = "record"
       THEN /\ processFile \in {Absent, Corrupt,
                             ProcessInfo(PriorPid, DefaultProcessName)}
            /\ alive \in (IF processFile.kind = "absent"
                            THEN {{}} ELSE {{}, {PriorPid}})
       ELSE processFile = Absent /\ alive = {}
  /\ argv = << >>

\* the scheduler on its own: the supervisor it is handed has either never
\* started a worker or started one (startAOProcess returned `PriorPid`)
SchedulerInit ==
  /\ Fresh
  /\ FindIdle
  /\ MatchIdle
  /\ \E started \in BOOLEAN :
       /\ process = (IF started THEN PriorPid ELSE Null)
       /\ processName = (started /\ revision = "instance")
       /\ alive = (IF started THEN {PriorPid} ELSE {})
       /\ processFile = (IF started /\ revision = "record"
                           THEN ProcessInfo(PriorPid, DefaultProcessName)
                           ELSE Absent)
       /\ argv = (IF ~started THEN << >>
                  ELSE IF revision = "instance"
                    THEN buildArgsInstance(DEFAULT_CONFIG)
                    ELSE buildArgsRecord(NoOptions, DEFAULT_CONFIG))

\* ------------------------------------------------------- evaluateProcess
\* instance revision: refuses without a started worker, otherwise spawns the
\* eval subprocess and settles when it exits or fails to spawn
evaluateProcessInstance(o) ==
  IF process = Null \/ ~processName THEN "guard"
  ELSE IF o = "spawnThrow" THEN "reject"
  ELSE "pending"

\* instance revision, the promise's 'error' and 'exit' listeners
onExit(o) == IF o = "exit0" THEN "resolve" ELSE "reject"

\* record revision: spawns, attaches a listener that only logs, and returns;
\* only an exception thrown by spawn() itself reaches the caller
evaluateProcessRecord(o) ==
  IF o = "spawnThrow" THEN "reject" ELSE "resolve"

evaluateProcess(o) ==
  IF revision = "instance" THEN evaluateProcessInstance(o)
  ELSE evaluateProcessRecord(o)

\* ---------------------------------------------------------------- Schedule
\* Schedule.stop() that forgets the timer without clearInterval
stoppedNotCleared(s) ==
  IF s.timer
    THEN [timer |-> FALSE, liveTimers |-> s.liveTimers, retryCount |-> 0]
    ELSE s

\* Schedule.stop() applied to the scheduler fields s
stopped(s) ==
  IF s.timer
    THEN [timer |-> FALSE, liveTimers |-> s.liveTimers - 1, retryCount |-> 0]
    ELSE s

\* tickResolved with the reset of the counter left out
tickResolvedNoReset(sym) ==
  /\ trail' = Append(trail, sym)
  /\ UNCHANGED <<timer, liveTimers, retryCount, errInflight, onErrorCalls,
                 handlerFailures>>

\* try branch of the timer callback after the await: this.retryCount = 0
tickResolved(sym) ==
  /\ retryCount' = 0
  /\ trail' = Append(trail, sym)
  /\ UNCHANGED <<timer, liveTimers, errInflight, onErrorCalls,
                 handlerFailures>>

\* catch branch of the timer callback; e is the fate of the eval subprocess
\* of the error operation, should the branch escalate
tickRejected(sym, e) ==
  /\ trail' = Append(trail, sym)
  /\ IF retryCount + 1 >= maxRetries
       THEN LET s == stopped([timer |-> timer, liveTimers |-> liveTimers,
                              retryCount |-> retryCount + 1])
                h == evaluateProcess(e)
            IN /\ timer' = s.timer
               /\ liveTimers' = s.liveTimers
               /\ retryCount' = s.retryCount
               /\ onErrorCalls' = onErrorCalls + 1
               /\ errInflight' =
                    IF h = "pending" THEN errInflight + 1 ELSE errInflight
               /\ handlerFailures' =
                    IF h \in {"reject", "guard"}
                      THEN handlerFailures + 1 ELSE handlerFailures
       ELSE /\ retryCount' = retryCount + 1
            /\ UNCHANGED <<timer, liveTimers, errInflight, onErrorCalls,
                           handlerFailures>>

\* start without the `if (this.timer) throw`
startUnguarded ==
  /\ ~crashed
  /\ timer' = TRUE
  /\ liveTimers' = liveTimers + 1
  /\ starts' = Min(starts + 1, 2)
  /\ call' = Called("Schedule.start", "ok")
  /\ UNCHANGED <<otherVars, cliVars, revision, maxRetries, retryCount, inflight, errInflight,
                 onErrorCalls, handlerFailures, trail, mgrVars, crashed>>

\* Schedule.start()
start ==
  /\ ~crashed
  /\ IF timer
       THEN /\ call' = Called("Schedule.start", "SchedulerAlreadyRunning")
            /\ UNCHANGED <<timer, liveTimers, starts>>
       ELSE /\ timer' = TRUE
            /\ liveTimers' = liveTimers + 1
            /\ starts' = Min(starts + 1, 2)
            /\ call' = Called("Schedule.start", "ok")
  /\ UNCHANGED <<otherVars, cliVars, revision, maxRetries, retryCount, inflight, errInflight,
                 onErrorCalls, handlerFailures, trail, mgrVars, crashed>>

\* Schedule.stop() called by the owner of the scheduler
stop ==
  /\ ~crashed
  /\ LET s == stopped([timer |-> timer, liveTimers |-> liveTimers,
                       retryCount |-> retryCount])
     IN /\ timer' = s.timer
        /\ liveTimers' = s.liveTimers
        /\ retryCount' = s.retryCount
  /\ call' = Called("Schedule.stop", "ok")
  /\ UNCHANGED <<otherVars, cliVars, revision, maxRetries, inflight, errInflight, onErrorCalls,
                 handlerFailures, trail, starts, mgrVars, crashed>>

\* the interval fires: the callback runs up to its first await and, when the
\* evaluation settles without waiting for a subprocess, to its end
timerCallback(o, e) ==
  /\ ~crashed
  /\ liveTimers > 0
  /\ Len(trail) + inflight < MaxTicks
  /\ LET r == evaluateProcess(o)
     IN CASE r = "pending" ->
               /\ inflight < MaxInFlight
               /\ inflight' = inflight + 1
               /\ UNCHANGED <<timer, liveTimers, retryCount, errInflight,
                              onErrorCalls, handlerFailures, trail>>
          [] r = "resolve" ->
               /\ tickResolved(IF o = "exit0" THEN "ok" ELSE "swallowed")
               /\ UNCHANGED inflight
          [] r = "guard" ->
               /\ tickRejected("guard", e)
               /\ UNCHANGED inflight
          [] r = "reject" ->
               /\ tickRejected("fail", e)
               /\ UNCHANGED inflight
  /\ UNCHANGED <<otherVars, cliVars, revision, maxRetries, starts, call, mgrVars, crashed>>

\* the eval subprocess of a suspended tick exits (or fails to spawn): the
\* callback resumes after its await
tickSettled(o, e) ==
  /\ ~crashed
  /\ inflight > 0
  /\ o # "spawnThrow"
  /\ inflight' = inflight - 1
  /\ IF onExit(o) = "resolve" THEN tickResolved("ok")
     ELSE tickRejected("fail", e)
  /\ UNCHANGED <<otherVars, cliVars, revision, maxRetries, starts, call, mgrVars, crashed>>

\* errorHandlerSettled that answers a failed error operation by invoking it
\* once more
errorHandlerSettledRetry(o) ==
  /\ ~crashed
  /\ errInflight > 0
  /\ o # "spawnThrow"
  /\ IF onExit(o) = "reject"
       THEN /\ handlerFailures' = handlerFailures + 1
            /\ onErrorCalls' = onErrorCalls + 1
            /\ UNCHANGED errInflight
       ELSE /\ errInflight' = errInflight - 1
            /\ UNCHANGED <<handlerFailures, onErrorCalls>>
  /\ UNCHANGED <<otherVars, cliVars, revision, maxRetries, timer, liveTimers, retryCount,
                 inflight, trail, starts, call, mgrVars, crashed>>

\* the eval subprocess of the error operation exits: a failure is logged by
\* the inner catch, a success ends the callback
errorHandlerSettled(o) ==
  /\ ~crashed
  /\ errInflight > 0
  /\ o # "spawnThrow"
  /\ errInflight' = errInflight - 1
  /\ handlerFailures' =
       IF onExit(o) = "reject" THEN handlerFailures + 1 ELSE handlerFailures
  /\ UNCHANGED <<otherVars, cliVars, revision, maxRetries, timer, liveTimers, retryCount,
                 inflight, onErrorCalls, trail, starts, call, mgrVars,
                 crashed>>

\* ------------------------------------------------------- AOSProcessManager
\* getProcessInfo without its try/catch: a file that cannot be read or
\* parsed makes readJSON throw out of it
getProcessInfoUncaught(file) ==
  IF file.kind = "corrupt" THEN [file EXCEPT !.kind = "threw"] ELSE file

\* getProcessInfo(): the record, or null when the file is missing or does
\* not parse
getProcessInfo(file) == IF file.kind = "record" THEN file ELSE Absent

\* instance revision of startAOProcess (it takes no options)
startAOProcessInstance(config, sp) ==
  IF config.luaFiles = << >>
    THEN /\ call' = Called("startAOProcess", "NoLuaFiles")
         /\ UNCHANGED <<mgrVars, argv, crashed>>
    ELSE /\ processName' = TRUE
         /\ argv' = buildArgsInstance(config)
         /\ CASE sp = "throw" ->
                   /\ call' = Called("startAOProcess", "SpawnFailed")
                   /\ UNCHANGED <<process, alive, nextPid, crashed>>
              [] sp = "ok" ->
                   /\ process' = nextPid
                   /\ alive' = alive \cup {nextPid}
                   /\ nextPid' = nextPid + 1
                   /\ call' = Called("startAOProcess", "ok")
                   /\ UNCHANGED crashed
              [] sp = "enoent" ->
                   \* 'error' is emitted on a child nobody listens to
                   /\ process' = NoPid
                   /\ crashed' = TRUE
                   /\ call' = Called("startAOProcess", "uncaught")
                   /\ UNCHANGED <<alive, nextPid>>
         /\ UNCHANGED <<processFile, signalled, writes>>

\* record revision of startAOProcess
startAOProcessRecord(options, config, sp) ==
  /\ argv' = buildArgsRecord(options, config)
  /\ CASE sp = "throw" ->
            /\ call' = Called("startAOProcess", "SpawnFailed")
            /\ UNCHANGED <<mgrVars, crashed>>
       [] sp = "ok" ->
            /\ process' = nextPid
            /\ alive' = alive \cup {nextPid}
            /\ nextPid' = nextPid + 1
            /\ processFile' =
                 ProcessInfo(nextPid,
                             IF config.processName # NoValue
                               THEN config.processName
                               ELSE DefaultProcessName)
            /\ writes' = writes + 1
            /\ call' = Called("startAOProcess", "ok")
            /\ UNCHANGED <<processName, signalled, crashed>>
       [] sp = "enoent" ->
            \* the 'error' listener rethrows inside the event handler, while
            \* writeJSON has at most opened (truncated) the record file
            /\ process' = NoPid
            /\ processFile' \in {processFile, Corrupt}
            /\ crashed' = TRUE
            /\ call' = Called("startAOProcess", "uncaught")
            /\ UNCHANGED <<processName, alive, nextPid, signalled, writes>>

startAOProcess(options, config, sp) ==
  /\ ~crashed
  /\ sp = "ok" => nextPid <= PriorPid + MaxWorkers
  /\ launch' = [options |-> options, config |-> config]
  /\ IF revision = "instance" THEN startAOProcessInstance(config, sp)
     ELSE startAOProcessRecord(options, config, sp)
  /\ UNCHANGED <<toolVars, cliVars, revision, maxRetries, schedVars>>

\* instance revision of stopProcess
stopProcessInstance ==
  /\ IF process # Null
       THEN /\ signalled' = IF process \in alive
                              THEN signalled \cup {process} ELSE signalled
            /\ alive' = alive \ {process}
            /\ process' = Null
            /\ processName' = FALSE
            /\ UNCHANGED <<processFile, nextPid, writes>>
       ELSE UNCHANGED mgrVars
  /\ call' = Called("stopProcess", "ok")

\* stopProcessRecord without the `if (processInfo)` test: processInfo.pid
\* of null throws out of stopProcess
stopProcessRecordUnguarded ==
  LET processInfo == getProcessInfo(processFile)
  IN /\ IF processInfo.pid \in alive
          THEN /\ signalled' = signalled \cup {processInfo.pid}
               /\ alive' = alive \ {processInfo.pid}
               /\ processFile' = Absent
               /\ UNCHANGED <<process, processName, nextPid, writes>>
          ELSE UNCHANGED mgrVars
     /\ call' = Called("stopProcess",
                       IF processInfo.kind = "record" THEN "ok"
                       ELSE "TypeError")

\* record revision of stopProcess
stopProcessRecord ==
  LET processInfo == getProcessInfo(processFile)
  IN /\ IF processInfo.kind = "record"
          THEN IF processInfo.pid \in alive
                 THEN /\ signalled' = signalled \cup {processInfo.pid}
                      /\ alive' = alive \ {processInfo.pid}
                      /\ processFile' = Absent
                      /\ UNCHANGED <<process, processName, nextPid, writes>>
                 ELSE \* process.kill throws, the catch logs, remove is
                      \* skipped
                      UNCHANGED mgrVars
          ELSE UNCHANGED mgrVars
     \* an exception of `await this.getProcessInfo()` is the caller's
     /\ call' = Called("stopProcess",
                       IF processInfo.kind = "threw" THEN "ReadError"
                       ELSE "ok")

stopProcess ==
  /\ ~crashed
  /\ IF revision = "instance" THEN stopProcessInstance ELSE stopProcessRecord
  /\ UNCHANGED <<otherVars, cliVars, revision, maxRetries, schedVars, crashed>>

\* isProcessRunning(): the same expression in both revisions
isProcessRunning == process # Null /\ processName

\* a worker process ends by itself
workerExit(p) ==
  /\ p \in alive
  /\ alive' = alive \ {p}
  /\ UNCHANGED <<otherVars, cliVars, revision, maxRetries, schedVars, call, process, processName,
                 processFile, nextPid, signalled, writes, crashed>>

\* ------------------------------------- overlapping `ao:stop` and `ao:start`
\* Two CLI processes of the record revision run stopProcess and
\* startAOProcess at once; each is interleaved with the other at its awaits.
\* stopProcess up to the end of `await this.getProcessInfo()`
raceStopRead ==
  /\ race.stop = "idle"
  /\ LET processInfo == getProcessInfo(processFile)
     IN race' = [race EXCEPT !.info = processInfo,
                             !.stop = IF processInfo.kind = "record"
                                        THEN "read" ELSE "done"]
  /\ UNCHANGED <<otherVars, cli, revision, maxRetries, schedVars, call,
                 mgrVars, crashed>>

\* process.kill(processInfo.pid), which throws into the catch when the pid
\* is gone
raceStopKill ==
  /\ race.stop = "read"
  /\ IF race.info.pid \in alive
       THEN /\ signalled' = signalled \cup {race.info.pid}
            /\ alive' = alive \ {race.info.pid}
            /\ race' = [race EXCEPT !.stop = "killed"]
       ELSE /\ race' = [race EXCEPT !.stop = "done"]
            /\ UNCHANGED <<signalled, alive>>
  /\ UNCHANGED <<otherVars, cli, revision, maxRetries, schedVars, call,
                 process, processName, processFile, nextPid, writes, crashed>>

\* await fs.remove(this.processFilePath)
raceStopRemove ==
  /\ race.stop = "killed"
  /\ processFile' = Absent
  /\ race' = [race EXCEPT !.stop = "done"]
  /\ UNCHANGED <<otherVars, cli, revision, maxRetries, schedVars, call,
                 process, processName, alive, nextPid, signalled, writes,
                 crashed>>

\* startAOProcess up to `await this.saveProcessInfo(...)`: the worker is
\* spawned
raceStartSpawn(options, config) ==
  /\ race.start = "idle"
  /\ nextPid <= PriorPid + MaxWorkers
  /\ launch' = [options |-> options, config |-> config]
  /\ argv' = buildArgsRecord(options, config)
  /\ process' = nextPid
  /\ alive' = alive \cup {nextPid}
  /\ nextPid' = nextPid + 1
  /\ race' = [race EXCEPT !.start = "spawned", !.worker = nextPid]
  /\ UNCHANGED <<devVars, toolVars, cli, revision, maxRetries, schedVars,
                 call, processName, processFile, signalled, writes, crashed>>

\* raceStartSave that completes without writing the file
raceStartSaveSkipped ==
  /\ race.start = "spawned"
  /\ race' = [race EXCEPT !.start = "idle"]
  /\ UNCHANGED <<otherVars, cli, revision, maxRetries, schedVars, call,
                 mgrVars, crashed>>

\* saveProcessInfo: writeJSON replaces whatever the file holds
raceStartSave ==
  /\ race.start = "spawned"
  /\ processFile' =
       ProcessInfo(race.worker,
                   IF launch.config.processName # NoValue
                     THEN launch.config.processName
                     ELSE DefaultProcessName)
  /\ writes' = writes + 1
  /\ race' = [race EXCEPT !.start = "idle"]
  /\ UNCHANGED <<otherVars, cli, revision, maxRetries, schedVars, call,
                 process, processName, alive, nextPid, signalled, crashed>>

\* ------------------------------------------------------ one-shot commands
\* instance revision of monitorProcess: refuses without a started worker,
\* otherwise settles when the subprocess exits or fails to spawn
monitorProcessInstance(o) ==
  IF ~processName THEN "guard"
  ELSE IF o = "spawnThrow" THEN "reject"
  ELSE "pending"

\* record revision of monitorProcess, watchProcess and listProcesses: spawn,
\* attach an 'error' listener, return
monitorProcessRecord(o) == IF o = "spawnThrow" THEN "reject" ELSE "resolve"
watchProcess(o) == IF o = "spawnThrow" THEN "reject" ELSE "resolve"
listProcesses(o) == IF o = "spawnThrow" THEN "reject" ELSE "resolve"

monitorProcess(o) ==
  IF revision = "instance" THEN monitorProcessInstance(o)
  ELSE monitorProcessRecord(o)

\* the one-shot commands each revision has
Commands ==
  IF revision = "instance" THEN {"evaluateProcess", "monitorProcess"}
  ELSE {"evaluateProcess", "monitorProcess", "watchProcess", "listProcesses"}

\* a caller invokes one-shot command op; o is what becomes of the subprocess.
\* The caller awaits the returned promise before its next call; a subprocess
\* of an earlier command that is still running is no longer followed.
invoke(op, aw, o) ==
  /\ ~crashed
  /\ promise # "pending"
  /\ op \in Commands
  /\ aw => op = "evaluateProcess"
  /\ LET r == CASE op = "evaluateProcess" -> evaluateProcess(o)
                [] op = "monitorProcess" -> monitorProcess(o)
                [] op = "watchProcess" -> watchProcess(o)
                [] op = "listProcesses" -> listProcesses(o)
     IN /\ command' = [op |-> op, await |-> aw]
        /\ promise' = CASE r = "pending" -> "pending"
                        [] r = "resolve" -> "resolved"
                        [] OTHER -> "rejected"
        /\ child' = IF r \in {"guard", "reject"} THEN NoChild
                    ELSE [state |-> "running", fate |-> o]
        /\ call' = Called(op, r)
  /\ overdue' = FALSE
  /\ UNCHANGED <<devVars, pureVars, cliVars, revision, maxRetries, schedVars, mgrVars,
                 argVars, crashed>>

\* the subprocess of the last command exits, or its spawn fails with an
\* 'error' event
childSettled ==
  /\ ~crashed
  /\ child.state = "running"
  /\ child' = [child EXCEPT !.state = child.fate]
  /\ IF revision = "instance"
       THEN \* process.on('error', reject); process.on('exit', ...)
            /\ promise' = IF promise # "pending" THEN promise
                          ELSE IF onExit(child.fate) = "resolve"
                            THEN "resolved" ELSE "rejected"
            /\ UNCHANGED crashed
       ELSE \* no 'exit' listener; the 'error' listener of evaluateProcess
            \* logs, the ones of monitor, watch and list rethrow
            /\ crashed' = (child.fate = "spawnError"
                             /\ command.op # "evaluateProcess")
            /\ UNCHANGED promise
  /\ UNCHANGED <<devVars, pureVars, cliVars, revision, maxRetries, schedVars, call,
                 mgrVars, argVars,
                 command, overdue>>

\* the timeout given to an awaited eval elapses while its subprocess runs;
\* neither revision has a timer of its own
deadline ==
  /\ ~crashed
  /\ command.op = "evaluateProcess"
  /\ command.await
  /\ child.state = "running"
  /\ ~overdue
  /\ overdue' = TRUE
  /\ UNCHANGED <<devVars, pureVars, cliVars, revision, maxRetries, schedVars, call,
                 mgrVars, argVars,
                 command, child, promise, crashed>>

\* ------------------------------------------------------------ CLI commands
\* The commands of index.ts, each run in a process of its own with the
\* record revision linked (the only one with setupCron, watchProcess and
\* listProcesses). A behaviour is followed up to the first command that dies
\* of an uncaught exception.
MaxCommands == 2     \* CLI commands run in one behaviour
\* setupCron: spawn, attach an 'error' listener, return
setupCron(o) == IF o = "spawnThrow" THEN "reject" ELSE "resolve"

\* the process has ended with exit code `code`; `error`: an operation threw,
\* rejected or caught an exception; `stderr`: console.error or the runtime
\* wrote an error message to the error stream; n counts the commands run
Exited(cmd, code, error, stderr) ==
  [n |-> cli.n + 1, cmd |-> cmd, phase |-> "exited", code |-> code,
   error |-> error, stderr |-> stderr]
\* the handler has returned and the event loop is kept alive
Running(cmd) ==
  [n |-> cli.n + 1, cmd |-> cmd, phase |-> "running", code |-> 0,
   error |-> FALSE, stderr |-> FALSE]

\* what `ao:start` is given on its command line
CliOptions == SupervisorOptions \cup {[NoOptions EXCEPT !.monitor = TRUE]}
\* the configuration once the handler has stored the selected Lua files
SelectedConfigs == {c \in SupervisorConfigs : c.luaFiles # << >>}
\* why the handler of `ao:start` returns before it starts anything
EarlyReturns == {"notInstalled", "noLuaFiles", "noneSelected"}

\* the handler's merge of the name into the configuration: the prompt
\* (answered with `answer`) when neither is set, else options.name
mergedConfig(options, config, answer) ==
  IF options.name = NoValue /\ config.processName = NoValue
    THEN [config EXCEPT !.processName = answer]
  ELSE IF options.name # NoValue
    THEN [config EXCEPT !.processName = options.name]
  ELSE config

\* `ao:stop`: the catch of stopProcess and the catch of the handler both
\* log and go on
aoStop ==
  /\ ~crashed
  /\ cli.n < MaxCommands
  /\ stopProcessRecord
  /\ LET processInfo == getProcessInfo(processFile)
         threw == processInfo.kind = "record" /\ processInfo.pid \notin alive
     IN cli' = IF call'.res # "ok" THEN Exited("ao:stop", 0, TRUE, TRUE)
               ELSE Exited("ao:stop", 0, threw, threw)
  /\ UNCHANGED <<otherVars, race, revision, maxRetries, schedVars, crashed>>

\* `ao:start`; pre is how far the handler gets before startAOProcess, m what
\* becomes of the subprocess of the `--monitor` option
aoStart(pre, options, config, answer, sp, m) ==
  /\ ~crashed
  /\ cli.n < MaxCommands
  /\ sp = "ok" => nextPid <= PriorPid + MaxWorkers
  /\ IF pre \in EarlyReturns
       THEN /\ cli' = Exited("ao:start", 0, FALSE, FALSE)
            /\ UNCHANGED <<mgrVars, argVars, call, crashed>>
       ELSE LET merged == mergedConfig(options, config, answer)
            IN /\ launch' = [options |-> options, config |-> merged]
               /\ startAOProcessRecord(options, merged, sp)
               /\ cli' =
                    CASE sp # "ok" -> Exited("ao:start", 1, TRUE, TRUE)
                      [] sp = "ok" /\ options.monitor
                           /\ monitorProcessRecord(m) = "reject" ->
                           Exited("ao:start", 1, TRUE, TRUE)
                      [] OTHER -> Running("ao:start")
  /\ UNCHANGED <<devVars, toolVars, race, revision, maxRetries, schedVars>>

\* the worker of a running `ao:start` is gone: the command ends
aoStartEnds ==
  /\ ~crashed
  /\ cli.cmd = "ao:start"
  /\ cli.phase = "running"
  /\ process \notin alive
  /\ cli' = [cli EXCEPT !.phase = "exited"]
  /\ UNCHANGED <<otherVars, race, revision, maxRetries, schedVars, call,
                 mgrVars, crashed>>

\* `ao:monitor`, `ao:watch`, `ao:list` and `ao:cron`, from the command to the
\* end of its process; o is what becomes of the subprocess
aoOneShot(cmd, o) ==
  /\ ~crashed
  /\ cli.n < MaxCommands
  /\ LET r == CASE cmd = "ao:monitor" -> monitorProcessRecord(o)
                [] cmd = "ao:watch" -> watchProcess(o)
                [] cmd = "ao:list" -> listProcesses(o)
                [] cmd = "ao:cron" -> setupCron(o)
     IN /\ cli' = IF r = "reject" \/ o = "spawnError"
                    THEN Exited(cmd, 1, TRUE, TRUE)
                    ELSE Exited(cmd, 0, FALSE, FALSE)
        \* the 'error' listener rethrows out of the event
        /\ crashed' = (r # "reject" /\ o = "spawnError")
  /\ UNCHANGED <<otherVars, race, revision, maxRetries, schedVars, call,
                 mgrVars>>

\* `ao:schedule`: a Schedule of its own on a supervisor of its own, started;
\* the interval keeps the process alive
aoSchedule ==
  /\ ~crashed
  /\ cli.n < MaxCommands
  /\ starts = 0
  /\ timer' = TRUE
  /\ liveTimers' = liveTimers + 1
  /\ starts' = starts + 1
  /\ call' = Called("Schedule.start", "ok")
  /\ cli' = Running("ao:schedule")
  /\ UNCHANGED <<otherVars, race, revision, maxRetries, retryCount, inflight,
                 errInflight, onErrorCalls, handlerFailures, trail, mgrVars,
                 crashed>>

\* `ao:schedule-stop`: stop() of a Schedule constructed in this process
aoScheduleStop ==
  /\ ~crashed
  /\ cli.n < MaxCommands
  /\ LET constructed == [timer |-> FALSE, liveTimers |-> 0, retryCount |-> 0]
     IN cli' = IF stopped(constructed) = constructed
                 THEN Exited("ao:schedule-stop", 0, FALSE, FALSE)
                 ELSE Exited("ao:schedule-stop", 1, TRUE, TRUE)
  /\ call' = Called("Schedule.stop", "ok")
  /\ UNCHANGED <<otherVars, race, revision, maxRetries, schedVars, mgrVars,
                 crashed>>

\* ------------------------------------------------------- startDevWithAO
MaxChunks == 3       \* stdout chunks the development server writes
\* output.includes('http://localhost:'), the signal as two pieces so that a
\* chunk boundary can fall inside it
Signal == <<"http://", "localhost:">>
\* what a development server writes, one chunk per 'data' event
DevOutput ==
  {<<"building...">>, <<"compiling...">>,
   <<"ready at ", "http://", "localhost:", "3000">>,
   <<"ready at ", "http://">>, <<"localhost:", "3000">>,
   <<"localhost:", "http://">>}
\* String.prototype.includes
Includes(output, searchString) ==
  \E i \in 1 .. Len(output) - Len(searchString) + 1 :
    SubSeq(output, i, i + Len(searchString) - 1) = searchString
\* config after `config.luaFiles = selectedFiles`
SelectedConfig == [DEFAULT_CONFIG EXCEPT !.luaFiles = <<"a.lua">>]

\* startDevWithAO up to `await serverReady()`: startDevServer spawns the
\* server and returns it, the gate attaches its listener and arms the timer;
\* a failure inside startDevServer ends the CLI
startDevWithAO(spawned) ==
  /\ seq = "idle"
  /\ IF spawned
       THEN /\ devServer' = "running"
            /\ gate' = "pending"
            /\ seq' = "awaitReady"
            /\ UNCHANGED reported
       ELSE /\ seq' = "exited"
            /\ reported' = "Failed to start development server"
            /\ UNCHANGED <<devServer, gate>>
  /\ UNCHANGED <<cliVars, revision, maxRetries, schedVars, call, mgrVars, argVars,
                 toolVars, chunks, timerFired, crashed>>

\* stdoutData that takes any output for the readiness signal
stdoutDataAnyOutput(output) ==
  /\ seq # "exited"
  /\ ~crashed
  /\ devServer = "running"
  /\ Len(chunks) < MaxChunks
  /\ chunks' = Append(chunks, output)
  /\ gate' = IF gate = "pending" THEN "resolved" ELSE gate
  /\ UNCHANGED <<cliVars, revision, maxRetries, schedVars, call, mgrVars, argVars,
                 toolVars, seq, devServer, timerFired, reported, crashed>>

\* devServer.stdout.on('data'): resolve(true) when the chunk has the signal;
\* resolving a settled promise does nothing
stdoutData(output) ==
  /\ seq # "exited"
  /\ ~crashed
  /\ devServer = "running"
  /\ Len(chunks) < MaxChunks
  /\ chunks' = Append(chunks, output)
  /\ gate' = IF gate = "pending" /\ Includes(output, Signal) THEN "resolved"
             ELSE gate
  /\ UNCHANGED <<cliVars, revision, maxRetries, schedVars, call, mgrVars, argVars,
                 toolVars, seq, devServer, timerFired, reported, crashed>>

\* setTimeout(() => reject(...), 120000): the timer is never cleared;
\* rejecting a settled promise does nothing
timeout ==
  /\ seq # "exited"
  /\ ~crashed
  /\ gate # "none"
  /\ ~timerFired
  /\ timerFired' = TRUE
  /\ gate' = IF gate = "pending" THEN "rejected" ELSE gate
  /\ UNCHANGED <<cliVars, revision, maxRetries, schedVars, call, mgrVars, argVars,
                 toolVars, seq, devServer, chunks, reported, crashed>>

\* devProcess.on('close'): a non-zero code ends the CLI
devClose(code) ==
  /\ seq # "exited"
  /\ ~crashed
  /\ devServer = "running"
  /\ IF code # 0
       THEN /\ devServer' = "closedNonZero"
            /\ reported' = "Development server stopped unexpectedly"
            /\ seq' = "exited"
       ELSE /\ devServer' = "closed0"
            /\ UNCHANGED <<reported, seq>>
  /\ UNCHANGED <<cliVars, revision, maxRetries, schedVars, call, mgrVars, argVars,
                 toolVars, gate, chunks, timerFired, crashed>>

\* the rejection of serverReady() reaches the catch of startDevWithAO
readinessFailed ==
  /\ seq = "awaitReady"
  /\ ~crashed
  /\ gate = "rejected"
  /\ seq' = "failed"
  /\ reported' = "Development server startup timed out after 2 minutes"
  /\ UNCHANGED <<cliVars, revision, maxRetries, schedVars, call, mgrVars, argVars,
                 toolVars, gate, devServer, chunks, timerFired, crashed>>

\* startWorker that does not wait for serverReady()
startWorkerUnready(pre, sp) ==
  /\ seq = "awaitReady"
  /\ ~crashed
  /\ IF pre = "go"
       THEN /\ startAOProcess(NoOptions, SelectedConfig, sp)
            /\ seq' = "started"
       ELSE /\ seq' = "returned"
            /\ UNCHANGED <<cliVars, revision, maxRetries, schedVars, call, mgrVars,
                           argVars, toolVars, crashed>>
  /\ UNCHANGED <<gate, devServer, chunks, timerFired, reported>>

\* startDevWithAO after `await serverReady()`: it returns early without aos,
\* without Lua files or without a selection, and calls startAOProcess
\* otherwise
startWorker(pre, sp) ==
  /\ seq = "awaitReady"
  /\ gate = "resolved"
  /\ ~crashed
  /\ IF pre = "go"
       THEN /\ startAOProcess(NoOptions, SelectedConfig, sp)
            /\ seq' = "started"
       ELSE /\ seq' = "returned"
            /\ UNCHANGED <<cliVars, revision, maxRetries, schedVars, call, mgrVars,
                           argVars, toolVars, crashed>>
  /\ UNCHANGED <<gate, devServer, chunks, timerFired, reported>>

\* ---------------------------------------------------------- findLuaFiles
\* names are strings, one character per element; a path is the sequence of
\* its names
Ao == <<"a", "o">>
ALua == <<"a", ".", "l", "u", "a">>
BLua == <<"b", ".", "l", "u", "a">>
CLua == <<"c", ".", "l", "u", "a">>
DLua == <<"d", ".", "l", "u", "a">>
ELua == <<"e", ".", "l", "u", "a">>
HiddenLua == <<"h", "i", "d", "d", "e", "n", ".", "l", "u", "a">>
LinkLua == <<"l", ".", "l", "u", "a">>
DotLua == <<".", "l", "u", "a">>
ATxt == <<"a", ".", "t", "x", "t">>
DotGit == <<".", "g", "i", "t">>
Sub == <<"s", "u", "b">>
DotCache == <<".", "c">>
Objects == <<"o">>
ModLua == <<"m", ".", "l", "u", "a">>
Dot == <<".">>
LuaExt == <<".", "l", "u", "a">>
\* the directory findLuaFiles is called on
TargetPath == <<Ao>>
Entry(dir, name, kind) ==
  [dir |-> TargetPath \o dir, name |-> name, kind |-> kind]
\* every entry a tree under TargetPath may hold; "other" is an entry that
\* is neither isFile() nor isDirectory(), such as a symbolic link
Universe ==
  {Entry(<< >>, ALua, "file"), Entry(<< >>, DotLua, "file"),
   Entry(<< >>, ATxt, "file"),
   Entry(<< >>, DotGit, "dir"), Entry(<<DotGit>>, HiddenLua, "file"),
   Entry(<<DotGit>>, Objects, "dir"),
   Entry(<<DotGit, Objects>>, ELua, "file"),
   Entry(<< >>, Sub, "dir"), Entry(<<Sub>>, BLua, "file"),
   Entry(<<Sub>>, LinkLua, "other"),
   Entry(<<Sub>>, DotCache, "dir"), Entry(<<Sub, DotCache>>, CLua, "file"),
   Entry(<< >>, ModLua, "dir"), Entry(<<ModLua>>, DLua, "file")}
\* every entry below TargetPath sits in a directory of the tree
IsTree(t) ==
  \A e \in t : e.dir # TargetPath
    => \E d \in t : d.kind = "dir" /\ Append(d.dir, d.name) = e.dir

\* String.prototype.startsWith / endsWith
startsWith(str, prefix) ==
  Len(str) >= Len(prefix) /\ SubSeq(str, 1, Len(prefix)) = prefix
endsWith(str, suffix) ==
  /\ Len(str) >= Len(suffix)
  /\ SubSeq(str, Len(str) - Len(suffix) + 1, Len(str)) = suffix
\* fs.readdir(dir, {withFileTypes: true})
readdir(t, dir) == {e \in t : e.dir = dir}
\* path.relative(from, to) for a path `to` below `from`
relative(from, to) == SubSeq(to, Len(from) + 1, Len(to))

\* walk that also descends into directories whose name starts with '.'
RECURSIVE walkAll(_, _, _)
walkAll(t, dir, entries) ==
  IF entries = {} THEN << >>
  ELSE LET entry == CHOOSE e \in entries : TRUE
           fullPath == Append(dir, entry.name)
       IN (IF entry.kind = "dir"
             THEN walkAll(t, fullPath, readdir(t, fullPath))
           ELSE IF entry.kind = "file" /\ endsWith(entry.name, LuaExt)
             THEN <<relative(TargetPath, fullPath)>>
           ELSE << >>)
            \o walkAll(t, dir, entries \ {entry})

\* walk(dir) from its `for (const entry of entries)` on: the files pushed
\* for the entries still to visit, in the order readdir listed them
RECURSIVE walk(_, _, _)
walk(t, dir, entries) ==
  IF entries = {} THEN << >>
  ELSE LET entry == CHOOSE e \in entries : TRUE
           fullPath == Append(dir, entry.name)
       IN (IF entry.kind = "dir" /\ ~startsWith(entry.name, Dot)
             THEN walk(t, fullPath, readdir(t, fullPath))
           ELSE IF entry.kind = "file" /\ endsWith(entry.name, LuaExt)
             THEN <<relative(TargetPath, fullPath)>>
           ELSE << >>)
            \o walk(t, dir, entries \ {entry})

findLuaFiles ==
  /\ scan = "idle"
  /\ files' = walk(tree, TargetPath, readdir(tree, TargetPath))
  /\ scan' = "done"
  /\ UNCHANGED <<cliVars, revision, maxRetries, schedVars, call, mgrVars, argVars,
                 cmdVars, devVars, matchVars, tree, crashed>>

\* ---------------------------------------------------------- matchPattern
\* patterns and messages are strings, one character per element
MaxPattern == 2      \* characters of a pattern
MaxMessage == 3      \* characters of a message
PatternChars == {"a", ".", "+", "*", "?"}
MessageChars == {"a", "x", ".", "+", "\n"}
TokenStar == <<"t", "o", "k", "e", "n", ":", "*">>
TokenTransfer1 ==
  <<"t", "o", "k", "e", "n", ":", "t", "r", "a", "n", "s", "f", "e", "r",
    ":", "1">>
Token == <<"t", "o", "k", "e", "n", ":">>
Other1 == <<"o", "t", "h", "e", "r", ":", "1">>
XToken1 == <<"x", "t", "o", "k", "e", "n", ":", "1">>
Patterns ==
  SeqsUpTo(PatternChars, MaxPattern)
    \cup {TokenStar, <<"(">>, <<"[", "!", "]">>}
Messages ==
  SeqsUpTo(MessageChars, MaxMessage)
    \cup {TokenTransfer1, Token, Other1, XToken1, <<"(">>, <<"(", "x">>}
\* the lists handed to matchPattern: none, one, or two patterns
PatternLists ==
  {<< >>} \cup {<<pattern>> : pattern \in Patterns}
    \cup {<<pattern, <<"x">>>> : pattern \in Patterns}
    \cup {<<<<"x">>, pattern>> : pattern \in Patterns}

\* characters `.` does not match in a RegExp without the s flag
LineTerminators == {"\n"}

\* String.prototype.replace(/searchValue/g, replaceValue)
RECURSIVE replace(_, _, _)
replace(str, searchValue, replaceValue) ==
  IF str = << >> THEN << >>
  ELSE IF startsWith(str, searchValue)
    THEN replaceValue
           \o replace(SubSeq(str, Len(searchValue) + 1, Len(str)),
                      searchValue, replaceValue)
    ELSE <<Head(str)>> \o replace(Tail(str), searchValue, replaceValue)

\* const regex = pattern.replace(/\*/g, '.*').replace(/\?/g, '.')
\*                      .replace(/\[!\]/g, '[^]')
regex(pattern) ==
  replace(replace(replace(pattern, <<"*">>, <<".", "*">>),
                  <<"?">>, <<".">>),
          <<"[", "!", "]">>, <<"[", "^", "]">>)

\* a compiled RegExp is a sequence of atoms: a set of characters the atom
\* takes ("in") or refuses ("notIn"), and its quantifier
Atom(kind, set) == [kind |-> kind, set |-> set, q |-> "1"]
SyntaxError == [ok |-> FALSE, atoms |-> << >>]
IndexOf(str, c) ==
  IF \E i \in 1 .. Len(str) : str[i] = c
    THEN CHOOSE i \in 1 .. Len(str) :
           str[i] = c /\ \A j \in 1 .. i - 1 : str[j] # c
    ELSE 0

\* new RegExp(source), for sources over the characters of Patterns after
\* translation: literals, `.`, the quantifiers `*` and `+`, character
\* classes, and `(` which no `)` closes
RECURSIVE RegExp(_, _)
RegExp(source, atoms) ==
  IF source = << >> THEN [ok |-> TRUE, atoms |-> atoms]
  ELSE LET c == Head(source)
           rest == Tail(source)
           close == IndexOf(rest, "]")
           body == SubSeq(rest, 1, close - 1)
           negated == body # << >> /\ Head(body) = "^"
           items == IF negated THEN Tail(body) ELSE body
       IN CASE c \in {"*", "+"} ->
                 \* nothing to repeat
                 IF atoms = << >> \/ atoms[Len(atoms)].q # "1"
                   THEN SyntaxError
                   ELSE RegExp(rest, [atoms EXCEPT ![Len(atoms)].q = c])
            [] c = "(" -> SyntaxError
            [] c = "[" ->
                 IF close = 0 THEN SyntaxError
                 ELSE RegExp(SubSeq(rest, close + 1, Len(rest)),
                             Append(atoms,
                                    Atom(IF negated THEN "notIn" ELSE "in",
                                         {items[i] : i \in DOMAIN items})))
            [] c = "." ->
                 RegExp(rest, Append(atoms, Atom("notIn", LineTerminators)))
            [] OTHER -> RegExp(rest, Append(atoms, Atom("in", {c})))

accepts(atom, c) ==
  IF atom.kind = "in" THEN c \in atom.set ELSE c \notin atom.set

\* RegExp.prototype.test for `^atoms$`
RECURSIVE test(_, _)
test(atoms, str) ==
  IF atoms = << >> THEN str = << >>
  ELSE LET atom == Head(atoms)
           one == str # << >> /\ accepts(atom, Head(str))
       IN CASE atom.q = "1" -> one /\ test(Tail(atoms), Tail(str))
            [] atom.q = "*" ->
                 test(Tail(atoms), str) \/ (one /\ test(atoms, Tail(str)))
            [] atom.q = "+" ->
                 one /\ test(<<[atom EXCEPT !.q = "*"]>> \o Tail(atoms),
                             Tail(str))

\* patterns.some(pattern => new RegExp(`^${regex}$`).test(message)): the
\* first pattern that matches ends the search, a pattern that does not
\* compile throws out of it
RECURSIVE matchPattern(_, _)
matchPattern(list, str) ==
  IF list = << >> THEN "false"
  ELSE LET compiled == RegExp(regex(Head(list)), << >>)
       IN IF ~compiled.ok THEN "SyntaxError"
          ELSE IF test(compiled.atoms, str) THEN "true"
          ELSE matchPattern(Tail(list), str)

\* a caller awaits matchPattern(patterns, message)
callMatchPattern ==
  /\ matched = "none"
  /\ matched' = matchPattern(patterns, message)
  /\ UNCHANGED <<cliVars, revision, maxRetries, schedVars, call, mgrVars, argVars,
                 cmdVars, devVars, findVars, patterns, message, crashed>>

\* ------------------------------------------------------------ specification
SchedulerNext ==
  \/ start
  \/ stop
  \/ \E o \in EvalOutcomes, e \in EvalOutcomes : timerCallback(o, e)
  \/ \E o \in EvalOutcomes, e \in EvalOutcomes : tickSettled(o, e)
  \/ \E o \in EvalOutcomes : errorHandlerSettled(o)

SchedulerSpec == SchedulerInit /\ [][SchedulerNext]_vars

Next ==
  \/ \E options \in SupervisorOptions, config \in SupervisorConfigs,
        sp \in SpawnOutcomes :
       startAOProcess(options, config, sp) /\ UNCHANGED devVars
  \/ stopProcess
  \/ \E p \in alive : workerExit(p)

Spec == Init /\ [][Next]_vars

\* one `ao:start` invocation of the record revision: a single startAOProcess
\* whose spawn succeeds, over every combination of launch options and
\* configured Lua files
ArgsInit ==
  /\ Init
  /\ revision = "record"
  /\ maxRetries = DefaultMaxRetries
  /\ processFile = Absent

ArgsNext ==
  /\ call.op = "new"
  /\ \E options \in LaunchOptions, config \in LaunchConfigs :
       startAOProcess(options, config, "ok") /\ UNCHANGED devVars

ArgsSpec == ArgsInit /\ [][ArgsNext]_vars

\* one `ao:stop` invocation of the record revision under way together with
\* `ao:start` invocations, one after the other while pids last
RaceInit ==
  /\ Init
  /\ revision = "record"
  /\ maxRetries = DefaultMaxRetries

RaceNext ==
  \/ raceStopRead
  \/ raceStopKill
  \/ raceStopRemove
  \/ \E options \in SupervisorOptions, config \in SupervisorConfigs :
       raceStartSpawn(options, config)
  \/ raceStartSave

RaceSpec == RaceInit /\ [][RaceNext]_vars

\* CLI commands run one after the other, the worker and the scheduler they
\* leave behind running on; the scheduler's tick evaluations succeed
CliInit ==
  /\ Init
  /\ revision = "record"
  /\ maxRetries = DefaultMaxRetries

CliNext ==
  \/ aoStartEnds
  \/ \E pre \in EarlyReturns :
       aoStart(pre, NoOptions, DEFAULT_CONFIG, NoValue, "ok", "exit0")
  \/ \E options \in CliOptions, config \in SelectedConfigs,
        sp \in SpawnOutcomes :
       \E answer \in IF options.name = NoValue /\ config.processName = NoValue
                       THEN {NoValue, DefaultProcessName} ELSE {NoValue},
          m \in IF options.monitor THEN EvalOutcomes ELSE {"exit0"} :
         aoStart("ready", options, config, answer, sp, m)
  \/ \E cmd \in {"ao:monitor", "ao:watch", "ao:list", "ao:cron"},
        o \in EvalOutcomes : aoOneShot(cmd, o)
  \/ aoSchedule
  \/ aoScheduleStop
  \/ aoStop
  \/ timerCallback("exit0", "exit0")
  \/ \E p \in alive : workerExit(p)

CliSpec == CliInit /\ [][CliNext]_vars

\* the one-shot commands on a supervisor that has or has not started a
\* worker
CommandInit ==
  /\ SchedulerInit
  /\ maxRetries = DefaultMaxRetries

CommandNext ==
  \/ \E op \in {"evaluateProcess", "monitorProcess", "watchProcess",
                 "listProcesses"}, aw \in BOOLEAN, o \in EvalOutcomes :
       invoke(op, aw, o)
  \/ childSettled
  \/ deadline

CommandSpec == CommandInit /\ [][CommandNext]_vars

\* one `dev:ao` invocation
DevInit ==
  /\ Init
  /\ maxRetries = DefaultMaxRetries
  /\ processFile = Absent

DevNext ==
  \/ \E spawned \in BOOLEAN : startDevWithAO(spawned)
  \/ \E output \in DevOutput : stdoutData(output)
  \/ timeout
  \/ \E code \in {0, 1} : devClose(code)
  \/ readinessFailed
  \/ \E pre \in {"noAos", "noLuaFiles", "noneSelected", "go"},
        sp \in SpawnOutcomes : startWorker(pre, sp)

DevSpec == DevInit /\ [][DevNext]_vars

\* a supervisor that has started nothing
NeverStarted ==
  /\ maxRetries = DefaultMaxRetries
  /\ process = Null
  /\ processName = FALSE
  /\ processFile = Absent
  /\ alive = {}
  /\ argv = << >>

\* findLuaFiles called once on any tree over Universe
FindInit ==
  /\ Fresh
  /\ NeverStarted
  /\ MatchIdle
  /\ tree \in {t \in SUBSET Universe : IsTree(t)}
  /\ scan = "idle"
  /\ files = << >>

FindNext == findLuaFiles

FindSpec == FindInit /\ [][FindNext]_vars

\* matchPattern called once on any list of patterns and any message
MatchInit ==
  /\ Fresh
  /\ revision = "record"
  /\ NeverStarted
  /\ FindIdle
  /\ patterns \in PatternLists
  /\ message \in Messages
  /\ matched = "none"

MatchNext == callMatchPattern

MatchSpec == MatchInit /\ [][MatchNext]_vars

TypeOK ==
  /\ revision \in Revisions
  /\ maxRetries \in 1 .. (MaxOption + DefaultMaxRetries)
  /\ timer \in BOOLEAN
  /\ liveTimers \in 0 .. 1
  /\ retryCount \in Nat
  /\ inflight \in 0 .. MaxInFlight
  /\ Len(trail) <= MaxTicks
  /\ cli.n \in 0 .. MaxCommands
  /\ cli.phase \in {"none", "running", "exited"}
  /\ race.stop \in {"idle", "read", "killed", "done"}
  /\ race.start \in {"idle", "spawned"}

\* ------------------------------------------------------------- properties
Last(t) == t[Len(t)]
Rejected == {"fail", "guard"}
\* tick evaluations whose subprocess did not run to exit code 0
Failed == {"fail", "guard", "swallowed"}
\* the caller's last call started the scheduler for the first time
FirstRun == starts = 1 /\ call.op = "Schedule.start" /\ call.res = "ok"
\* the last n entries of t are all in S
Trailing(t, n, S) ==
  /\ Len(t) >= n
  /\ \A i \in 1 .. Len(t) : i > Len(t) - n => t[i] \in S
ApiCall(op) == call' # call /\ call'.op = op

\* C1: with maxRetries = 3 and tick evaluations that all fail, the scheduler
\* is stopped with the error operation invoked once after 3 ticks, and is
\* still running with no invocation after 2
C1_ThreeFailuresStop ==
  (maxRetries = 3 /\ FirstRun /\ \A i \in 1 .. Len(trail) : trail[i] \in Failed)
    => /\ Len(trail) = 3 => (~timer /\ onErrorCalls = 1)
       /\ Len(trail) = 2 => (timer /\ onErrorCalls = 0)

\* C2: while the timer handle is present retryCount never exceeds
\* maxRetries, and the error operation is only ever invoked with the timer
\* handle cleared
C2_CounterBoundedWhileRunning ==
  [][/\ timer' => retryCount' <= maxRetries
     /\ onErrorCalls' > onErrorCalls => ~timer']_vars

\* C3: a tick that succeeds resets retryCount to zero; fail, fail, success,
\* fail, fail under maxRetries = 3 leaves the scheduler running with the
\* error operation not invoked; the error operation is invoked only when the
\* last maxRetries ticks all failed
C3_SuccessResetsCounter ==
  [][/\ (Len(trail') > Len(trail) /\ Last(trail') \notin Rejected)
          => retryCount' = 0
     /\ (/\ maxRetries = 3
         /\ FirstRun'
         /\ Len(trail') = 5
         /\ \A i \in {1, 2, 4, 5} : trail'[i] \in Rejected
         /\ trail'[3] \notin Rejected)
          => (timer' /\ onErrorCalls' = 0 /\ retryCount' = 2)
     /\ onErrorCalls' > onErrorCalls
          => Trailing(trail', maxRetries, Rejected)]_vars

C3_Witness ==
  /\ maxRetries = 3
  /\ FirstRun
  /\ trail = <<"fail", "fail", "ok", "fail", "fail">>
  /\ timer
  /\ onErrorCalls = 0

\* C4: start() on a running scheduler fails with 'Scheduler already running'
\* and leaves timer and retryCount as they were; no state has two timers
C4_StartWhileRunning ==
  [][/\ (ApiCall("Schedule.start") /\ timer)
          => /\ call'.res = "SchedulerAlreadyRunning"
             /\ timer' = timer
             /\ liveTimers' = liveTimers
             /\ retryCount' = retryCount
     /\ liveTimers' <= 1]_vars

C4_Witness ==
  /\ call.op = "Schedule.start"
  /\ call.res = "SchedulerAlreadyRunning"
  /\ timer
  /\ liveTimers = 1
  /\ retryCount > 0

\* C5: after stop() returns the timer handle is absent and retryCount is
\* zero, and a second stop() changes nothing
C5_StopClearsAndResets ==
  [][ApiCall("Schedule.stop")
       => /\ ~timer'
          /\ retryCount' = 0
          /\ call.op = "Schedule.stop"
               => <<timer', liveTimers', retryCount'>>
                    = <<timer, liveTimers, retryCount>>]_vars

\* C6: a failing error operation is logged only: it is not invoked again,
\* the timer handle is not set again and nothing escapes the callback
C6_HandlerFailureLogged ==
  [][handlerFailures' > handlerFailures
       => /\ handlerFailures' = handlerFailures + 1
          /\ onErrorCalls' - onErrorCalls = Len(trail') - Len(trail)
          /\ ~(timer' /\ ~timer)
          /\ liveTimers' <= liveTimers
          /\ crashed' = crashed]_vars

C6_Witness ==
  /\ handlerFailures = 1
  /\ onErrorCalls = 1
  /\ errInflight = 0
  /\ ~timer
  /\ ~crashed

\* no ProcessRecord exists: nothing on disk in the record revision, nothing
\* in memory in the instance revision
NoRecord ==
  IF revision = "instance" THEN process = Null
  ELSE processFile.kind = "absent"

\* C7: stopProcess() with a ProcessRecord on disk always deletes the record
C7_StopDeletesRecord ==
  [][(ApiCall("stopProcess") /\ processFile.kind = "record")
       => processFile'.kind = "absent"]_vars

\* C8: stopProcess() with no ProcessRecord returns successfully, sends no
\* signal and neither creates nor removes a record
C8_StopWithoutRecord ==
  [][(ApiCall("stopProcess") /\ NoRecord)
       => /\ call'.res = "ok"
          /\ UNCHANGED <<mgrVars, crashed>>]_vars

C8_Witness ==
  /\ call.op = "stopProcess"
  /\ call.res = "ok"
  /\ revision = "record"
  /\ processFile = Absent
  /\ signalled = {}
  /\ process = Null

\* C9: a startAOProcess whose worker could not be spawned fails with a spawn
\* error to its caller, retains no process handle and writes no record
C9_SpawnFailureStaysIdle ==
  [][(/\ ApiCall("startAOProcess")
      /\ call'.res # "NoLuaFiles"
      /\ alive' = alive)
       => /\ call'.res = "SpawnFailed"
          /\ process' = process
          /\ processFile' = processFile
          /\ ~crashed']_vars

\* C10: startAOProcess on a supervisor that holds a worker is rejected with
\* ProcessAlreadyRunning and spawns nothing, so the supervisor never has two
\* live workers of its own
C10_StartWhileRunningRejected ==
  [][/\ (/\ ApiCall("startAOProcess")
         /\ call'.res # "NoLuaFiles"
         /\ process # Null)
          => /\ call'.res = "ProcessAlreadyRunning"
             /\ alive' = alive
     /\ Cardinality(alive' \ {PriorPid}) <= 1]_vars

\* the flags of the worker command line, in the order startAOProcess
\* appends them
FlagOrder ==
  <<"--wallet", "--load", "--data", "--tag-name", "--tag-value", "--module",
    "--cron", "--monitor", "--sqlite", "--gateway-url", "--cu-url",
    "--mu-url">>
IsFlag(tok) == \E i \in 1 .. Len(FlagOrder) : FlagOrder[i] = tok
\* args starts with a logical name for the worker
Named(args) == args # << >> /\ ~IsFlag(args[1])

\* C11: a successful startAOProcess of the record revision completes exactly
\* one write of the record file, and the record then carries the pid of the
\* worker this call spawned, never the placeholder, together with the name
\* that worker was given on its command line
C11_OneRecordWritePerStart ==
  [][(revision = "record" /\ ApiCall("startAOProcess") /\ call'.res = "ok")
       => /\ writes' = writes + 1
          /\ processFile'.kind = "record"
          /\ processFile'.pid # NoPid
          /\ processFile'.pid = process'
          /\ processFile'.pid \in alive' \ alive
          /\ Named(argv') => processFile'.name = argv'[1]]_vars

\* the part of C11 about the write and the pid alone
C11_WriteAndPid ==
  [][(revision = "record" /\ ApiCall("startAOProcess"))
       => IF call'.res = "ok"
            THEN /\ writes' = writes + 1
                 /\ processFile'.kind = "record"
                 /\ processFile'.pid # NoPid
                 /\ processFile'.pid = process'
                 /\ processFile'.pid \in alive' \ alive
            ELSE writes' = writes]_vars

\* ----------------------------------------------- argument vector claims
\* the record revision has handed an argument vector to spawn
Launched == revision = "record" /\ call.op = "startAOProcess"
\* the logical name startAOProcess is asked to launch under
LaunchName ==
  IF launch.options.name # NoValue THEN launch.options.name
  ELSE launch.config.processName
Rank(flag) == CHOOSE i \in 1 .. Len(FlagOrder) : FlagOrder[i] = flag
Positions(args, tok) == {i \in 1 .. Len(args) : args[i] = tok}
\* flag occurs in args exactly when value is set, once, followed by value
ValuedFlag(args, flag, value) ==
  IF value = NoValue THEN Positions(args, flag) = {}
  ELSE /\ Cardinality(Positions(args, flag)) = 1
       /\ \A i \in Positions(args, flag) : i < Len(args) /\ args[i + 1] = value
SwitchFlag(args, flag, on) ==
  Cardinality(Positions(args, flag)) = (IF on THEN 1 ELSE 0)
\* the arguments of the --load flags of args, in order
RECURSIVE LoadedFiles(_)
LoadedFiles(args) ==
  IF Len(args) < 2 THEN << >>
  ELSE IF Head(args) = "--load"
    THEN <<args[2]>> \o LoadedFiles(Tail(Tail(args)))
    ELSE LoadedFiles(Tail(args))
Present(value) == IF value # NoValue THEN 1 ELSE 0

C13_LoadBeforeWallet ==
  Launched =>
    \A i \in Positions(argv, "--load"), j \in Positions(argv, "--wallet") :
      i < j

\* C13 amended: with a wallet and Lua files given, --wallet <path> comes
\* right after the name and before every --load pair
C13_WalletBeforeLoad ==
  (Launched /\ launch.options.wallet # NoValue)
    => /\ Positions(argv, "--wallet") = {Present(LaunchName) + 1}
       /\ \A i \in Positions(argv, "--load"),
             j \in Positions(argv, "--wallet") : j + 1 < i

C13_Witness ==
  /\ Launched
  /\ call.res = "ok"
  /\ launch.options.wallet # NoValue
  /\ Len(launch.config.luaFiles) = 2
  /\ argv[2] = "--wallet"
  /\ Positions(argv, "--load") = {4, 6}

\* --------------------------------------------------- one-shot commands
\* C14: an awaited evaluateProcess is rejected whenever its subprocess could
\* not be spawned, exited with a non-zero code or ran past the timeout, and
\* is resolved only when the subprocess has exited with code 0
C14_AwaitedEvalFails ==
  (command.op = "evaluateProcess" /\ command.await)
    => /\ (\/ call.res = "reject"
           \/ child.state \in {"exitNonZero", "spawnError"}
           \/ overdue) => promise = "rejected"
       /\ promise = "resolved" => child.state = "exit0"

\* C15: the promise of evaluateProcess, monitorProcess, watchProcess and
\* listProcesses is settled only once the subprocess the call spawned has
\* exited
C15_SettledAfterExit ==
  (command.op \in Commands /\ promise \in {"resolved", "rejected"})
    => child.state # "running"

\* ------------------------------------------------------- readiness gate
\* some chunk written so far contains the signal
SignalSeen == \E i \in 1 .. Len(chunks) : Includes(chunks[i], Signal)

\* C16: the readiness wait resolves exactly at the first stdout chunk that
\* contains the signal, is rejected with the timeout error when the timer
\* fires with no such chunk seen, and once settled is changed neither by
\* later chunks nor by the timer
C16_ReadinessGate ==
  [][/\ (gate = "pending" /\ gate' = "resolved")
          => /\ chunks' # chunks
             /\ Includes(Last(chunks'), Signal)
             /\ ~SignalSeen
     /\ (gate = "pending" /\ chunks' # chunks
           /\ Includes(Last(chunks'), Signal)) => gate' = "resolved"
     /\ (gate = "pending" /\ timerFired' # timerFired) => gate' = "rejected"
     /\ (gate = "pending" /\ gate' = "rejected")
          => timerFired' /\ ~timerFired /\ ~SignalSeen
     /\ gate \in {"resolved", "rejected"} => gate' = gate]_vars

C16_Witness ==
  /\ chunks = <<<<"building...">>, <<"compiling...">>,
                <<"ready at ", "http://", "localhost:", "3000">>>>
  /\ gate = "resolved"
  /\ timerFired

\* C17: startAOProcess is called only once the readiness signal has been
\* observed; after a readiness timeout, or a non-zero exit of the development
\* server before readiness, the sequence has ended with a reported failure
\* and startAOProcess has not been called
C17_WorkerAfterReadiness ==
  /\ call.op = "startAOProcess" => gate = "resolved" /\ SignalSeen
  /\ gate = "rejected" => /\ call.op # "startAOProcess"
                          /\ seq \in {"awaitReady", "failed", "exited"}
  /\ seq = "failed" => reported # "none" /\ call.op # "startAOProcess"
  /\ (devServer = "closedNonZero" /\ gate # "resolved")
       => /\ seq = "exited"
          /\ reported # "none"
          /\ call.op # "startAOProcess"

C17_Witness ==
  /\ seq = "started"
  /\ call.op = "startAOProcess"
  /\ call.res = "ok"
  /\ Len(chunks) = 2
  /\ ~Includes(chunks[1], Signal)
  /\ Includes(chunks[2], Signal)

\* ---------------------------------------------------------- findLuaFiles
Range(f) == {f[i] : i \in DOMAIN f}
\* the files of t named *.lua with no directory between TargetPath and them
\* whose name starts with '.', as paths relative to TargetPath
LuaFilesUnder(t) ==
  {relative(TargetPath, Append(e.dir, e.name)) :
     e \in {f \in t :
              /\ f.kind = "file"
              /\ endsWith(f.name, LuaExt)
              /\ \A i \in Len(TargetPath) + 1 .. Len(f.dir) :
                   ~startsWith(f.dir[i], Dot)}}
ExampleTree ==
  {Entry(<< >>, ALua, "file"), Entry(<< >>, DotGit, "dir"),
   Entry(<<DotGit>>, HiddenLua, "file"), Entry(<< >>, Sub, "dir"),
   Entry(<<Sub>>, BLua, "file")}

\* C18: findLuaFiles returns, each once and relative to the root, exactly
\* the files named *.lua that are not inside a directory whose name starts
\* with '.'; for a.lua, .git/hidden.lua, sub/b.lua that is a.lua, sub/b.lua
C18_FindLuaFiles ==
  scan = "done"
    => /\ Range(files) = LuaFilesUnder(tree)
       /\ Cardinality(Range(files)) = Len(files)
       /\ tree = ExampleTree => Range(files) = {<<ALua>>, <<Sub, BLua>>}

C18_Witness ==
  /\ scan = "done"
  /\ tree = ExampleTree
  /\ Range(files) = {<<ALua>>, <<Sub, BLua>>}
  /\ Len(files) = 2

\* ---------------------------------------------------------- matchPattern
\* str holds none of the wildcard tokens `*`, `?`, `[!]`
NoWildcard(str) ==
  /\ \A i \in 1 .. Len(str) : str[i] \notin {"*", "?"}
  /\ ~Includes(str, <<"[", "!", "]">>)
\* characters with a meaning of their own in a regular expression
RegexMeta == {".", "+", "(", "[", "]", "^"}
\* str is made of `*`, `?` and characters without a meaning in a regular
\* expression
GlobOnly(str) == \A i \in 1 .. Len(str) : str[i] \notin RegexMeta
\* the wildcard reading of a pattern: `*` is any run of characters, `?` any
\* one character, every other character itself
RECURSIVE GlobMatch(_, _)
GlobMatch(pattern, str) ==
  IF pattern = << >> THEN str = << >>
  ELSE CASE Head(pattern) = "*" ->
              \/ GlobMatch(Tail(pattern), str)
              \/ str # << >> /\ GlobMatch(pattern, Tail(str))
         [] Head(pattern) = "?" ->
              str # << >> /\ GlobMatch(Tail(pattern), Tail(str))
         [] OTHER ->
              /\ str # << >>
              /\ Head(str) = Head(pattern)
              /\ GlobMatch(Tail(pattern), Tail(str))

\* C19: a pattern s without wildcard tokens, whatever other characters it
\* holds, matches the message s and does not match the message s + 'x'
C19_LiteralAnchored ==
  (matched # "none" /\ Len(patterns) = 1 /\ NoWildcard(patterns[1]))
    => /\ message = patterns[1] => matched = "true"
       /\ message = patterns[1] \o <<"x">> => matched = "false"

\* the part of C19 about strings without regular-expression characters
C19_PlainStrings ==
  (matched # "none" /\ Len(patterns) = 1 /\ NoWildcard(patterns[1])
     /\ GlobOnly(patterns[1]))
    => /\ message = patterns[1] => matched = "true"
       /\ message = patterns[1] \o <<"x">> => matched = "false"

\* C20: over patterns of literal characters, `*` and `?`, matchPattern is
\* true exactly when some pattern of the list matches the whole message with
\* `*` standing for any run of characters and `?` for any one character, and
\* false for the empty list
C20_WildcardSemantics ==
  (matched # "none" /\ \A i \in 1 .. Len(patterns) : GlobOnly(patterns[i]))
    => matched = (IF \E i \in 1 .. Len(patterns) :
                       GlobMatch(patterns[i], message)
                    THEN "true" ELSE "false")

\* the part of C20 about messages of a single line
C20_SingleLine ==
  (\A i \in 1 .. Len(message) : message[i] \notin LineTerminators)
    => C20_WildcardSemantics

\* ------------------------------------------------------ supervisor, again
\* C22: with a record file that cannot be read or parsed, stopProcess of the
\* record revision returns without raising, sends no signal and leaves
\* everything as it is, as it does with no file at all
C22_CorruptRecordIsNoRecord ==
  [][(revision = "record" /\ processFile.kind = "corrupt"
        /\ ApiCall("stopProcess"))
       => /\ call'.res = "ok"
          /\ UNCHANGED <<mgrVars, crashed>>]_vars

C22_Witness ==
  /\ revision = "record"
  /\ processFile = Corrupt
  /\ call.op = "stopProcess"
  /\ call.res = "ok"
  /\ alive # {}
  /\ signalled = {}

\* C24: isProcessRunning() follows the calls: true after a startAOProcess
\* that succeeded, false after stopProcess, and unchanged by anything else
\* (while the host process lives)
C24_IsProcessRunningTracks ==
  [][~crashed' =>
       /\ (ApiCall("startAOProcess") /\ call'.res = "ok")
            => isProcessRunning'
       /\ ApiCall("stopProcess") => ~isProcessRunning'
       /\ ~(ApiCall("startAOProcess") /\ call'.res = "ok")
            /\ ~ApiCall("stopProcess")
            => isProcessRunning' = isProcessRunning]_vars

\* the same of the instance revision alone
C24_InstanceTracks ==
  [][(revision = "instance" /\ ~crashed') =>
       /\ (ApiCall("startAOProcess") /\ call'.res = "ok")
            => isProcessRunning'
       /\ ApiCall("stopProcess") => ~isProcessRunning'
       /\ ~(ApiCall("startAOProcess") /\ call'.res = "ok")
            /\ ~ApiCall("stopProcess")
            => isProcessRunning' = isProcessRunning]_vars

\* C29: in the record revision every worker that startAOProcess spawned,
\* that still runs and that was sent no signal is the one the record file
\* identifies
C29_LiveWorkerIsRecorded ==
  (revision = "record" /\ ~crashed)
    => \A p \in alive \ signalled :
         p > PriorPid
           => processFile.kind = "record" /\ processFile.pid = p

\* C30: after a successful startAOProcess of the record revision, whenever
\* the worker was given a logical name (options.name, else
\* config.processName) as the first element of its argument vector, the
\* record file stores that same name
C30_RecordNameIsLaunchName ==
  (Launched /\ call.res = "ok" /\ Named(argv))
    => /\ argv[1] = LaunchName
       /\ processFile.kind = "record"
       /\ processFile.name = argv[1]

\* ------------------------------------------------------- scheduler, again
\* tick evaluations begun so far: the completed ones and those in flight
TicksStarted == Len(trail) + inflight

\* C25: Schedule.stop() clears the timer and touches no evaluation in flight;
\* while the scheduler is stopped no tick evaluation begins, and the only
\* ticks that complete are ones that were in flight
C25_StopPreventsFutureTicksOnly ==
  [][/\ ApiCall("Schedule.stop")
          => /\ ~timer'
             /\ UNCHANGED <<inflight, errInflight, trail>>
     /\ ~timer => TicksStarted' = TicksStarted
     /\ (~timer /\ trail' # trail) => inflight' = inflight - 1]_vars

\* the caller stopped the only run, nothing ever escalated, and a tick that
\* was in flight at the stop has failed since
C25_Witness ==
  /\ call.op = "Schedule.stop"
  /\ starts = 1
  /\ onErrorCalls = 0
  /\ ~timer
  /\ retryCount > 0
  /\ inflight = 0

\* C27: a scheduler that was started once invokes the error operation at
\* most once, however its tick evaluations overlap
C27_ErrorOperationOncePerRun ==
  starts <= 1 => onErrorCalls <= 1

\* C28: while the scheduler is stopped after the caller's stop(), the error
\* operation is not invoked and retryCount stays zero
C28_QuietAfterStop ==
  [][(~timer /\ call.op = "Schedule.stop" /\ ~ApiCall("Schedule.start"))
       => /\ onErrorCalls' = onErrorCalls
          /\ retryCount = 0 => retryCount' = 0]_vars

\* ---------------------------------------------------- overlapping commands
\* C26: a stop invocation overlapping a start invocation can lose the
\* record, and only so: when both have finished and the worker that start
\* spawned runs unsignalled with no record file, stop had read the record of
\* another worker before start wrote its own and removed the file after
C26_RecordLostOnlyByRace ==
  (/\ race.start = "idle"
   /\ race.stop \in {"idle", "done"}
   /\ race.worker \in alive \ signalled
   /\ processFile.kind # "record")
    => /\ race.info.kind = "record"
       /\ race.info.pid # race.worker
       /\ race.info.pid \in signalled
       /\ processFile = Absent

\* the lost record: both invocations are over, the new worker runs, the old
\* one was signalled, and the file is gone
C26_Witness ==
  /\ race.start = "idle"
  /\ race.stop = "done"
  /\ race.worker \in alive \ signalled
  /\ writes = 1
  /\ processFile = Absent
  /\ race.info = ProcessInfo(PriorPid, DefaultProcessName)
  /\ PriorPid \in signalled

\* ------------------------------------------------------------ CLI commands
CoreCommands ==
  {"ao:start", "ao:monitor", "ao:watch", "ao:list", "ao:cron", "ao:schedule",
   "ao:schedule-stop", "ao:stop"}
CliRan(cmd) == cli' # cli /\ cli'.cmd = cmd

\* C21: a core command that has ended ended with a non-zero exit code
\* exactly when its operation surfaced an error, and then the error message
\* is on the error stream
C21_ExitCodeTellsError ==
  (cli.cmd \in CoreCommands /\ cli.phase = "exited")
    => /\ cli.error <=> cli.code # 0
       /\ cli.error => cli.stderr

\* C23: once `ao:schedule-stop` has run, the timer that `ao:schedule`
\* started is cleared and no tick is issued
C23_ScheduleStopStops ==
  [][/\ CliRan("ao:schedule-stop") => (~timer' /\ liveTimers' = 0)
     /\ (cli.cmd = "ao:schedule-stop" /\ ~CliRan("ao:schedule"))
          => trail' = trail]_vars

====
